---- MODULE Spec2Model ----
(***************************************************************************)
(* Grad-CAM notebook (src/Explainability/explainability.ipynb).            *)
(*                                                                         *)
(* The model covers the tapped classifier (ImageClassifierCAM; VGG has the *)
(* same four methods line for line, with one extra average pooling), the   *)
(* wrapped classifier ImageClassifier, the prediction cell                 *)
(* (softmax + argmax) and run_gradcam.                                     *)
(*                                                                         *)
(* Tensors are nested sequences [batch][channel][row][column] of integers. *)
(* The trained weights come from a checkpoint that is not part of the      *)
(* source, so the layers keep the structure of the source (conv, ReLU,     *)
(* max-pool, conv, ReLU, max-pool, then Linear/ReLU/Linear/ReLU/Linear)    *)
(* on a reduced geometry with fixed integer weights.  Means and the        *)
(* normalising division are exact rationals <<numerator, denominator>>;    *)
(* a division by zero gives the IEEE results NaN / Inf.                    *)
(***************************************************************************)
EXTENDS Integers, Sequences, FiniteSets, TLC

VARIABLES gradients, gradSrc, tape, ret, inp

vars == <<gradients, gradSrc, tape, ret, inp>>

\* Python's None, as the empty tuple (no tensor is empty)
None == <<>>

\* s as an explicit tuple (TLC otherwise re-evaluates a function constructor on
\* every application); the value is unchanged
Eager(s) == s \o <<>>

\* f as an explicit function: each value is computed once
Memo(f) == f @@ <<>>

---------------------------------------------------------------------------
(* Sequence helpers *)

RECURSIVE SumSeq(_)
SumSeq(s) == IF s = <<>> THEN 0 ELSE Head(s) + SumSeq(Tail(s))

RECURSIVE Concat(_)
Concat(ss) == IF ss = <<>> THEN <<>> ELSE Head(ss) \o Concat(Tail(ss))

Max2(a, b) == IF a >= b THEN a ELSE b

RECURSIVE MaxSeq(_)
MaxSeq(s) == IF Len(s) = 1 THEN s[1] ELSE Max2(Head(s), MaxSeq(Tail(s)))

Abs(a) == IF a < 0 THEN -a ELSE a

RECURSIVE Gcd(_, _)
Gcd(a, b) == IF b = 0 THEN a ELSE Gcd(b, a % b)

---------------------------------------------------------------------------
(* Tensor shape: number of rows / columns of a [row][column] grid *)

Rows(g) == Len(g)
Cols(g) == IF Len(g) = 0 THEN 0 ELSE Len(g[1])

---------------------------------------------------------------------------
(* Layers.  A layer is a record with a kind; conv and linear carry weights *)

\* nn.Conv2d, stride 1, no padding: weight w[out][in][di][dj], bias b[out]
Conv2dSample(l, s) ==
  LET k  == Len(l.w[1][1])
      oh == Rows(s[1]) - k + 1
      ow == Cols(s[1]) - k + 1
  IN [o \in 1..Len(l.w) |->
       [i \in 1..oh |->
         [j \in 1..ow |->
            l.b[o] + SumSeq([c \in 1..Len(s) |->
                       SumSeq([di \in 1..k |->
                         SumSeq([dj \in 1..k |->
                            l.w[o][c][di][dj] * s[c][i + di - 1][j + dj - 1]])])])]]]

\* nn.ReLU on one sample
ReLUSample(s) ==
  [c \in 1..Len(s) |-> [i \in 1..Rows(s[c]) |-> [j \in 1..Cols(s[c]) |-> Max2(s[c][i][j], 0)]]]

\* the k*k window of grid g whose top-left corner is pooled cell (i, j), row-major
Window(g, k, i, j) ==
  Concat([di \in 1..k |-> [dj \in 1..k |-> g[(i - 1) * k + di][(j - 1) * k + dj]]])

\* nn.MaxPool2d(kernel_size=k) / F.max_pool2d(x, kernel_size=k): stride k, floor mode
MaxPool2dSample(k, s) ==
  [c \in 1..Len(s) |->
    [i \in 1..(Rows(s[c]) \div k) |->
      [j \in 1..(Cols(s[c]) \div k) |-> MaxSeq(Window(s[c], k, i, j))]]]

\* a [channel][row][column] sample / a [batch]... tensor as explicit tuples
EagerSample(s) == Eager([c \in 1..Len(s) |-> Eager([i \in 1..Len(s[c]) |-> Eager(s[c][i])])])
EagerTensor(t) == Eager([n \in 1..Len(t) |-> EagerSample(t[n])])

ApplyLayer(l, t) ==
  EagerTensor(
   CASE l.kind = "conv"    -> [n \in 1..Len(t) |-> Conv2dSample(l, t[n])]
     [] l.kind = "relu"    -> [n \in 1..Len(t) |-> ReLUSample(t[n])]
     [] l.kind = "maxpool" -> [n \in 1..Len(t) |-> MaxPool2dSample(l.k, t[n])])

\* nn.Sequential.forward: the layers in order
RECURSIVE Sequential(_, _)
Sequential(layers, t) ==
  IF layers = <<>> THEN t ELSE Sequential(Tail(layers), ApplyLayer(Head(layers), t))

---------------------------------------------------------------------------
(* Fully connected head: vectors [batch][feature] *)

\* nn.Linear: weight w[out][in], bias b[out]
LinearRow(l, v) == [o \in 1..Len(l.w) |-> l.b[o] + SumSeq([f \in 1..Len(v) |-> l.w[o][f] * v[f]])]

ReLURow(v) == [f \in 1..Len(v) |-> Max2(v[f], 0)]

ApplyFcLayer(l, v) == Eager(IF l.kind = "linear" THEN LinearRow(l, v) ELSE ReLURow(v))

RECURSIVE FcRow(_, _)
FcRow(layers, v) ==
  IF layers = <<>> THEN v ELSE FcRow(Tail(layers), ApplyFcLayer(Head(layers), v))

Ok(v) == [status |-> "ok", value |-> v]
Raise(e) == [status |-> "raise", value |-> e]

\* self.fc(x): the first Linear rejects rows whose length is not its in_features
FcForward(layers, m) ==
  IF \E n \in 1..Len(m) : Len(m[n]) /= Len(layers[1].w[1])
  THEN Raise("RuntimeError")
  ELSE Ok(Eager([n \in 1..Len(m) |-> FcRow(layers, m[n])]))

\* all entries of one sample, channel-major then row-major
FlatSample(s) == Concat([c \in 1..Len(s) |-> Concat(s[c])])

\* x.view(x.size(0), -1)
ViewPerSample(t) == Eager([n \in 1..Len(t) |-> FlatSample(t[n])])

\* x.view((1, -1))
ViewOneRow(t) == << Concat([n \in 1..Len(t) |-> FlatSample(t[n])]) >>

---------------------------------------------------------------------------
(* The network: structure of ImageClassifier.__init__ on a reduced geometry *)

\* kernel_size of the two nn.MaxPool2d layers of self.conv
PoolKernel == 2

\* kernel_size of F.max_pool2d in ImageClassifierCAM.forward
TapPoolKernel == 2

\* self.conv[:5]
TapIndex == 5

\* output_dim
OutputDim == 10

ConvLayers ==
  << [kind |-> "conv",
      w |-> << << << <<1, 0>>, <<0, 1>> >> >>,
               << << <<1, -1>>, <<-1, 1>> >> >> >>,
      b |-> <<0, 0>>],
     [kind |-> "relu"],
     [kind |-> "maxpool", k |-> PoolKernel],
     [kind |-> "conv",
      w |-> << << << <<1, 0>>, <<0, 0>> >>, << <<0, 1>>, <<0, 0>> >> >>,
               << << <<0, 0>>, <<0, 1>> >>, << <<1, 0>>, <<0, -1>> >> >> >>,
      b |-> <<-1, 0>>],
     [kind |-> "relu"],
     [kind |-> "maxpool", k |-> PoolKernel] >>

FcLayers ==
  << [kind |-> "linear", w |-> << <<1, 0>>, <<0, 1>>, <<1, -1>> >>, b |-> <<0, 0, 0>>],
     [kind |-> "relu"],
     [kind |-> "linear", w |-> << <<1, 1, 0>>, <<0, 1, 1>>, <<1, 0, -1>> >>, b |-> <<0, -1, 0>>],
     [kind |-> "relu"],
     [kind |-> "linear",
      w |-> [k \in 1..OutputDim |-> [j \in 1..3 |-> ((k + j) % 3) - 1]],
      b |-> [k \in 1..OutputDim |-> k % 2]] >>

\* ImageClassifier.forward
ImageClassifierForward(t) == FcForward(FcLayers, ViewPerSample(Sequential(ConvLayers, t)))

\* features_conv = self.conv[:5]; features_conv(x)
FeaturesConv(t) == Sequential(SubSeq(ConvLayers, 1, TapIndex), t)

\* ImageClassifierCAM.forward after the hook is registered: the remaining
\* pooling, x.view((1, -1)) and self.fc
TappedHead(tapT) ==
  FcForward(FcLayers,
            ViewOneRow(EagerTensor([n \in 1..Len(tapT) |->
                                       MaxPool2dSample(TapPoolKernel, tapT[n])])))

\* ImageClassifierCAM.forward: the logits it returns, or the error it raises
TappedForward(t) == TappedHead(FeaturesConv(t))

---------------------------------------------------------------------------
(* Input images: one channel, ImageSide x ImageSide, pixel values 0..2.    *)
(* Image 0 is the all-zero image.                                          *)

ImageSide == 7

\* the all-zero image and one textured image
ImageIds == {0, 1}

\* side 7 -conv 2-> 6 -pool 2-> 3 -conv 2-> 2 (tap) -pool 2-> 1
ImageGrid(id) ==
  [i \in 1..ImageSide |-> [j \in 1..ImageSide |-> IF id = 0 THEN 0 ELSE (i * j * (id + 1) + j) % 3]]

\* an input batch is a sequence of image ids; the tensor it denotes
Tensor(x) == EagerTensor([n \in 1..Len(x) |-> << ImageGrid(x[n]) >>])

\* single images (batch of one, as the notebook passes) and one batch of two
SingleInputs == {<<id>> : id \in ImageIds}
Inputs == SingleInputs \cup {<<0, 1>>}

---------------------------------------------------------------------------
(* Autograd: the gradient of logits[0, cls] at the tapped tensor, which    *)
(* the hook installed by forward receives during backward                  *)

\* gradient w.r.t. the input v of the layer list, given the gradient g at its output
RECURSIVE FcBack(_, _, _)
FcBack(layers, v, g) ==
  IF layers = <<>> THEN g
  ELSE LET l  == Head(layers)
           gy == Eager(FcBack(Tail(layers), ApplyFcLayer(l, v), g))
       IN Eager(IF l.kind = "linear"
                THEN [f \in 1..Len(v) |-> SumSeq([o \in 1..Len(l.w) |-> l.w[o][f] * gy[o]])]
                ELSE [f \in 1..Len(v) |-> IF v[f] > 0 THEN gy[f] ELSE 0])

\* position of the first maximum of a non-empty sequence
FirstMax(s) == CHOOSE i \in 1..Len(s) :
                 /\ \A j \in 1..Len(s) : s[j] <= s[i]
                 /\ \A j \in 1..(i - 1) : s[j] < s[i]

\* max-pool backward: each pooled cell passes its gradient to the first maximum
\* of its window, every other cell gets 0
MaxPoolBack(k, s, gp) ==
  [c \in 1..Len(s) |->
    [r \in 1..Rows(s[c]) |->
      [q \in 1..Cols(s[c]) |->
        LET i == ((r - 1) \div k) + 1
            j == ((q - 1) \div k) + 1
            pos == ((r - 1) % k) * k + ((q - 1) % k) + 1
        IN IF i <= Rows(s[c]) \div k /\ j <= Cols(s[c]) \div k
              /\ FirstMax(Window(s[c], k, i, j)) = pos
           THEN gp[c][i][j] ELSE 0]]]

\* logits[:, cls].backward() for a forward pass on a batch of one: the gradient
\* that reaches the tapped tensor (cls is a position 1..OutputDim)
TapGradient(t, cls) ==
  LET tapS   == FeaturesConv(t)[1]
      pooled == EagerSample(MaxPool2dSample(TapPoolKernel, tapS))
      ph     == Rows(pooled[1])
      pw     == Cols(pooled[1])
      gflat  == FcBack(FcLayers, FlatSample(pooled),
                       [o \in 1..OutputDim |-> IF o = cls THEN 1 ELSE 0])
      gp     == EagerSample([c \in 1..Len(pooled) |-> [i \in 1..ph |-> [j \in 1..pw |->
                   gflat[(c - 1) * ph * pw + (i - 1) * pw + j]]]])
  IN << EagerSample(MaxPoolBack(TapPoolKernel, tapS, gp)) >>

\* the tensors of the inputs, the tapped activations, the logits and the tap
\* gradients, tabulated once
TensorTable == Memo([x \in Inputs |-> Tensor(x)])
ActivationTable == Memo([x \in Inputs |-> FeaturesConv(TensorTable[x])])
LogitsTable == Memo([x \in Inputs |-> TappedHead(ActivationTable[x])])
GradientTable ==
  Memo([x \in SingleInputs |-> Eager([c \in 1..OutputDim |-> TapGradient(TensorTable[x], c)])])
WrappedTable == Memo([x \in Inputs |-> ImageClassifierForward(TensorTable[x])])

---------------------------------------------------------------------------
(* Real arithmetic of run_gradcam: exact rationals <<num, den>>, den > 0,  *)
(* in lowest terms; NaN and Inf are what a float division by zero gives     *)

NaN == <<0, 0>>
Inf == <<1, 0>>

Rat(n, d) == LET g == Gcd(Abs(n), d) IN <<n \div g, d \div g>>

RatMul(p, q) == Rat(p[1] * q[1], p[2] * q[2])
RatAdd(p, q) == Rat(p[1] * q[2] + q[1] * p[2], p[2] * q[2])
RatLeq(p, q) == p[1] * q[2] <= q[1] * p[2]
RatMax(p, q) == IF RatLeq(q, p) THEN p ELSE q

\* p / q in floating point: 0/0 is NaN, x/0 is infinite
RatDiv(p, q) ==
  IF q[1] = 0 THEN (IF p[1] = 0 THEN NaN ELSE Inf)
  ELSE IF q[1] > 0 THEN Rat(p[1] * q[2], p[2] * q[1])
  ELSE Rat(-(p[1] * q[2]), p[2] * (-q[1]))

RECURSIVE RatSum(_)
RatSum(s) == IF s = <<>> THEN <<0, 1>> ELSE RatAdd(Head(s), RatSum(Tail(s)))

RECURSIVE RatMaxSeq(_)
RatMaxSeq(s) == IF Len(s) = 1 THEN s[1] ELSE RatMax(Head(s), RatMaxSeq(Tail(s)))

\* mean of a non-empty sequence of rationals
RatMean(s) == RatMul(RatSum(s), <<1, Len(s)>>)

\* all entries of a [batch][row][column] grid stack, in order
FlatGrids(h) == Concat([n \in 1..Len(h) |-> Concat(h[n])])

---------------------------------------------------------------------------
(* run_gradcam after the backward pass, on gradients g and activations a,  *)
(* both [batch][channel][row][column]                                      *)

\* pooled_gradients = torch.mean(gradients, dim=[0, 2, 3])
PooledGradients(g) ==
  Eager([c \in 1..Len(g[1]) |->
     RatMean(Concat([n \in 1..Len(g) |->
                [k \in 1..Len(Concat(g[n][c])) |-> <<Concat(g[n][c])[k], 1>>]]))])

\* variant: every channel is scaled by the weight of the first channel
WeightChannelsFirstWeight(a, pooled, nfc) ==
  Eager([n \in 1..Len(a) |->
    Eager([c \in 1..Len(a[n]) |->
      Eager([i \in 1..Rows(a[n][c]) |->
        Eager([j \in 1..Cols(a[n][c]) |->
           IF c <= nfc THEN RatMul(<<a[n][c][i][j], 1>>, pooled[1])
                       ELSE <<a[n][c][i][j], 1>>])])])])

\* variant: the loop stops one channel early
WeightChannelsShort(a, pooled, nfc) ==
  Eager([n \in 1..Len(a) |->
    Eager([c \in 1..Len(a[n]) |->
      Eager([i \in 1..Rows(a[n][c]) |->
        Eager([j \in 1..Cols(a[n][c]) |->
           IF c < nfc THEN RatMul(<<a[n][c][i][j], 1>>, pooled[c])
                      ELSE <<a[n][c][i][j], 1>>])])])])

\* for i in range(num_feature_channels): activations[:, i, :, :] *= pooled_gradients[i]
\* (in place: the channels the loop does not reach keep their values)
WeightChannels(a, pooled, nfc) ==
  Eager([n \in 1..Len(a) |->
    Eager([c \in 1..Len(a[n]) |->
      Eager([i \in 1..Rows(a[n][c]) |->
        Eager([j \in 1..Cols(a[n][c]) |->
           IF c <= nfc THEN RatMul(<<a[n][c][i][j], 1>>, pooled[c])
                       ELSE <<a[n][c][i][j], 1>>])])])])

\* torch.mean(activations, dim=1)
ChannelMean(wa) ==
  Eager([n \in 1..Len(wa) |->
    Eager([i \in 1..Rows(wa[n][1]) |->
      Eager([j \in 1..Cols(wa[n][1]) |->
         RatMean([c \in 1..Len(wa[n]) |-> wa[n][c][i][j]])])])])

\* np.maximum(heatmap, 0)
Rectify(h) ==
  Eager([n \in 1..Len(h) |->
    Eager([i \in 1..Rows(h[n]) |->
      Eager([j \in 1..Cols(h[n]) |-> RatMax(h[n][i][j], <<0, 1>>)])])])

\* the heatmap before normalisation
RawHeatmap(a, g, nfc) == Rectify(ChannelMean(WeightChannels(a, PooledGradients(g), nfc)))

\* heatmap /= torch.max(heatmap)
Normalize(h) ==
  LET m == RatMaxSeq(FlatGrids(h))
  IN Eager([n \in 1..Len(h) |->
       Eager([i \in 1..Rows(h[n]) |->
         Eager([j \in 1..Cols(h[n]) |-> RatDiv(h[n][i][j], m)])])])

\* tensor.squeeze() on a tensor of the given rank: every dimension of size 1 goes
RECURSIVE Squeeze(_, _)
Squeeze(t, rank) ==
  IF rank = 0 THEN t
  ELSE IF Len(t) = 1 THEN Squeeze(t[1], rank - 1)
  ELSE Eager([i \in 1..Len(t) |-> Squeeze(t[i], rank - 1)])

\* the arithmetic of run_gradcam: the heatmap it returns, or the error it raises
\* (the loop indexes channel i of both tensors: IndexError past the last channel);
\* raw and values expose the grid before and after normalisation, entry by entry
GradcamMath(a, g, nfc) ==
  IF nfc > Len(g[1]) \/ nfc > Len(a[1]) THEN Raise("IndexError")
  ELSE LET raw  == RawHeatmap(a, g, nfc)
           heat == Normalize(raw)
       IN Ok([grid |-> Squeeze(heat, 3), values |-> FlatGrids(heat), raw |-> FlatGrids(raw)])

---------------------------------------------------------------------------
(* State of one tapped classifier instance and of the autograd graphs of   *)
(* the logits its forward calls returned                                   *)
(*   gradients : self.gradients                                            *)
(*   tape      : one entry per logits tensor returned by forward: the      *)
(*               input x it was computed from and whether its graph has    *)
(*               been freed by a backward pass                             *)
(*   gradSrc   : history: which forward pass and class position the        *)
(*               gradient now in self.gradients was captured from          *)
(*   ret       : the last call, its arguments and what it returned/raised  *)
(*   inp       : the argument of the pure computations (SpecCam, SpecSel)  *)

MaxForwards == 2

\* channel count of the tapped tensor
TapChannels == Len(ConvLayers[TapIndex - 1].w)

\* class_label values tried: below -OutputDim, negative, legal, OutputDim
ClassLabels == {-OutputDim - 1, -1, 2, OutputDim}

\* num_feature_channels values tried
NfcChoices == {TapChannels - 1, TapChannels, TapChannels + 1}

\* run_gradcam's arithmetic tabulated on the tensors the instance can hold
HeatmapTable ==
  Memo([q \in {<<ActivationTable[x], GradientTable[y][c], nfc>> :
                   x \in SingleInputs, y \in SingleInputs, c \in 1..OutputDim,
                   nfc \in NfcChoices}
          |-> GradcamMath(q[1], q[2], q[3])])

\* a logits tensor: of forward call i of this instance, or one whose graph does
\* not pass through this instance's tap ("foreign"), or one without a graph
Own(i) == <<"own", i>>
Foreign == <<"foreign", 0>>
Detached == <<"detached", 0>>
Handles == {Own(i) : i \in 1..Len(tape)} \cup {Foreign, Detached}

\* lifecycle state of the specification's state machine, read off the tape
Phase ==
  IF tape = <<>> THEN "Idle"
  ELSE IF tape[Len(tape)].freed THEN "Backpropagated" ELSE "Forwarded"

NoArgs == [x |-> <<>>, h |-> <<>>, k |-> 0, nfc |-> 0]

\* whether logits h still carry a graph through this instance's hook
Live(h) == h[1] = "own" /\ ~tape[h[2]].freed

\* the record of a call: its arguments, its outcome, whether a backward pass
\* ran in it, and the lifecycle state and liveness of its logits when it began
Call(op, args, res, bw) ==
  [op |-> op, x |-> args.x, h |-> args.h, k |-> args.k, nfc |-> args.nfc,
   status |-> res.status, value |-> res.value, phase |-> Phase, bw |-> bw,
   live |-> args.h /= <<>> /\ Live(args.h)]

\* ImageClassifierCAM.__init__: self.gradients = None
Init ==
  /\ gradients = None
  /\ gradSrc = None
  /\ tape = <<>>
  /\ ret = [op |-> "init", x |-> <<>>, h |-> <<>>, k |-> 0, nfc |-> 0,
            status |-> "ok", value |-> None, phase |-> "Idle", bw |-> FALSE,
            live |-> FALSE]
  /\ inp = <<>>

\* x.register_hook(self.activations_hook): the graph of the logits now leads
\* through the hook
RegisterHook(tp, x) == Append(tp, [x |-> x, freed |-> FALSE])

\* variant: forward stores the tapped tensor in the capture slot
ForwardCaptures(x) ==
  /\ Len(tape) < MaxForwards
  /\ LET res == LogitsTable[x]
     IN /\ tape' = IF res.status = "ok" THEN RegisterHook(tape, x) ELSE tape
        /\ ret' = Call("forward", [NoArgs EXCEPT !.x = x], res, FALSE)
  /\ gradients' = ActivationTable[x]
  /\ UNCHANGED <<gradSrc, inp>>

\* variant: forward clears the captured gradient
ForwardResets(x) ==
  /\ Len(tape) < MaxForwards
  /\ LET res == LogitsTable[x]
     IN /\ tape' = IF res.status = "ok" THEN RegisterHook(tape, x) ELSE tape
        /\ ret' = Call("forward", [NoArgs EXCEPT !.x = x], res, FALSE)
  /\ gradients' = None
  /\ gradSrc' = None
  /\ UNCHANGED inp

\* ImageClassifierCAM.forward(x)
Forward(x) ==
  /\ Len(tape) < MaxForwards
  /\ LET res == LogitsTable[x]
     IN /\ tape' = IF res.status = "ok" THEN RegisterHook(tape, x) ELSE tape
        /\ ret' = Call("forward", [NoArgs EXCEPT !.x = x], res, FALSE)
  /\ UNCHANGED <<gradients, gradSrc, inp>>

\* variant: negative indices are rejected
ColumnOfNoWrap(k) == IF 0 <= k /\ k < OutputDim THEN k + 1 ELSE 0

\* logits[:, k] on a tensor with OutputDim columns: the column position
\* (1-based) selected, or 0 for IndexError
ColumnOf(k) ==
  IF 0 <= k /\ k < OutputDim THEN k + 1
  ELSE IF -OutputDim <= k /\ k < 0 THEN k + OutputDim + 1
  ELSE 0

\* variant: the hook belongs to the instance and reports the gradient of the
\* latest forward pass
BackwardFromLatest(h, k) ==
  LET same == [status |-> "raise", value |-> "RuntimeError", bw |-> FALSE,
               tape |-> tape, gradients |-> gradients, gradSrc |-> gradSrc]
  IN IF ColumnOf(k) = 0 THEN [same EXCEPT !.value = "IndexError"]
     ELSE IF h = Detached THEN same
     ELSE IF h = Foreign THEN [same EXCEPT !.status = "ok", !.value = None, !.bw = TRUE]
     ELSE IF tape[h[2]].freed THEN same
     ELSE [status |-> "ok", value |-> None, bw |-> TRUE,
           tape |-> [tape EXCEPT ![h[2]].freed = TRUE],
           gradients |-> GradientTable[tape[Len(tape)].x][ColumnOf(k)],
           gradSrc |-> [fwd |-> h[2], col |-> ColumnOf(k)]]

\* logits[:, class_label].backward() on logits h: what it raises, whether the
\* backward pass ran, and the instance state after it (activations_hook:
\* self.gradients = grad)
BackwardFrom(h, k) ==
  LET same == [status |-> "raise", value |-> "RuntimeError", bw |-> FALSE,
               tape |-> tape, gradients |-> gradients, gradSrc |-> gradSrc]
  IN IF ColumnOf(k) = 0 THEN [same EXCEPT !.value = "IndexError"]
     ELSE IF h = Detached THEN same
     ELSE IF h = Foreign THEN [same EXCEPT !.status = "ok", !.value = None, !.bw = TRUE]
     ELSE IF tape[h[2]].freed THEN same
     ELSE [status |-> "ok", value |-> None, bw |-> TRUE,
           tape |-> [tape EXCEPT ![h[2]].freed = TRUE],
           gradients |-> GradientTable[tape[h[2]].x][ColumnOf(k)],
           gradSrc |-> [fwd |-> h[2], col |-> ColumnOf(k)]]

\* a backward pass started by the caller
Backward(h, k) ==
  LET b == BackwardFrom(h, k)
  IN /\ tape' = b.tape
     /\ gradients' = b.gradients
     /\ gradSrc' = b.gradSrc
     /\ ret' = Call("backward", [NoArgs EXCEPT !.h = h, !.k = k], b, b.bw)
     /\ UNCHANGED inp

\* variant: the getter rejects an absent gradient
GetActivationsGradientStrict ==
  /\ ret' = Call("get_activations_gradient", NoArgs,
                 IF gradients = None THEN Raise("StateError") ELSE Ok(gradients), FALSE)
  /\ UNCHANGED <<gradients, gradSrc, tape, inp>>

\* ImageClassifierCAM.get_activations_gradient()
GetActivationsGradient ==
  /\ ret' = Call("get_activations_gradient", NoArgs, Ok(gradients), FALSE)
  /\ UNCHANGED <<gradients, gradSrc, tape, inp>>

\* variant: get_activations registers the hook as forward does
GetActivationsHooked(x) ==
  /\ ret' = Call("get_activations", [NoArgs EXCEPT !.x = x], Ok(ActivationTable[x]), FALSE)
  /\ tape' = IF Len(tape) < MaxForwards THEN RegisterHook(tape, x) ELSE tape
  /\ UNCHANGED <<gradients, gradSrc, inp>>

\* ImageClassifierCAM.get_activations(x)
GetActivations(x) ==
  /\ ret' = Call("get_activations", [NoArgs EXCEPT !.x = x], Ok(ActivationTable[x]), FALSE)
  /\ UNCHANGED <<gradients, gradSrc, tape, inp>>

\* variant: run_gradcam without its own backward pass
RunGradcamNoBackward(image, h, k, nfc) ==
  LET res == IF gradients = None THEN Raise("TypeError")
             ELSE HeatmapTable[<<ActivationTable[image], gradients, nfc>>]
  IN /\ ret' = Call("run_gradcam", [x |-> image, h |-> h, k |-> k, nfc |-> nfc], res, FALSE)
     /\ UNCHANGED <<tape, gradients, gradSrc, inp>>

\* run_gradcam(model, image, logits, class_label, num_feature_channels)
RunGradcam(image, h, k, nfc) ==
  LET b   == BackwardFrom(h, k)
      res == IF b.status = "raise" THEN b
             ELSE IF b.gradients = None THEN Raise("TypeError")
             ELSE HeatmapTable[<<ActivationTable[image], b.gradients, nfc>>]
  IN /\ tape' = b.tape
     /\ gradients' = b.gradients
     /\ gradSrc' = b.gradSrc
     /\ ret' = Call("run_gradcam", [x |-> image, h |-> h, k |-> k, nfc |-> nfc], res, b.bw)
     /\ UNCHANGED inp

Next ==
  \/ \E x \in Inputs : Forward(x)
  \/ \E h \in Handles, k \in ClassLabels : Backward(h, k)
  \/ GetActivationsGradient
  \/ \E x \in Inputs : GetActivations(x)
  \/ \E image \in SingleInputs, h \in Handles, k \in ClassLabels, nfc \in NfcChoices :
        RunGradcam(image, h, k, nfc)

Spec == Init /\ [][Next]_vars

---------------------------------------------------------------------------
(* run_gradcam's arithmetic on arbitrary activation / gradient pairs of    *)
(* one shape: batch 1, CamShape[1] channels, CamShape[2] x CamShape[3]      *)

MaxAct == 1

CamShape == <<2, 1, 2>>

ActValues == 0..MaxAct
GradValues == {-1, 0, 1}

\* all [1][channel][row][column] tensors of shape CamShape over a value set
CamTensors(vals) ==
  LET rows  == [1..CamShape[3] -> vals]
      grids == [1..CamShape[2] -> rows]
  IN {<<s>> : s \in [1..CamShape[1] -> grids]}

CamInputs ==
  [a : CamTensors(ActValues), g : CamTensors(GradValues), nfc : 1..(CamShape[1] + 1)]

InitCam ==
  /\ gradients = None
  /\ gradSrc = None
  /\ tape = <<>>
  /\ ret = [op |-> "init", x |-> <<>>, h |-> <<>>, k |-> 0, nfc |-> 0,
            status |-> "ok", value |-> None, phase |-> "Idle", bw |-> FALSE,
            live |-> FALSE]
  /\ inp \in CamInputs

\* run_gradcam from "pool the gradients" to "return heatmap" on inp
CamCompute ==
  /\ ret.op = "init"
  /\ ret' = Call("gradcam_math", [NoArgs EXCEPT !.nfc = inp.nfc],
                 GradcamMath(inp.a, inp.g, inp.nfc), FALSE)
  /\ UNCHANGED <<gradients, gradSrc, tape, inp>>

\* the permutations of the channel indices of a CamShape tensor
ChannelPerms ==
  {p \in [1..CamShape[1] -> 1..CamShape[1]] :
      \A c, d \in 1..CamShape[1] : p[c] = p[d] => c = d}

\* t with its channel axis reordered: channel c of the result is channel p[c] of t
PermuteChannels(t, p) ==
  Eager([n \in 1..Len(t) |-> Eager([c \in 1..Len(t[n]) |-> t[n][p[c]]])])

\* the same arithmetic on the activations and gradients of inp with their
\* channel axes reordered by p, next to the result for inp as given
CamComputePermuted(p) ==
  /\ ret.op = "gradcam_math"
  /\ ret' = Call("gradcam_math_permuted", [NoArgs EXCEPT !.x = p, !.nfc = inp.nfc],
                 Ok([before |-> [status |-> ret.status, value |-> ret.value],
                     after  |-> GradcamMath(PermuteChannels(inp.a, p),
                                            PermuteChannels(inp.g, p), inp.nfc)]),
                 FALSE)
  /\ UNCHANGED <<gradients, gradSrc, tape, inp>>

NextCam == CamCompute \/ \E p \in ChannelPerms : CamComputePermuted(p)

SpecCam == InitCam /\ [][NextCam]_vars

---------------------------------------------------------------------------
(* Claims about the tapped classifier's captured gradient                  *)

\* no backward pass has reached this instance's hook
NoBackwardYet == \A i \in 1..Len(tape) : ~tape[i].freed

\* C1 (as stated): get_activations_gradient() before any backward pass fails
\* with an error and returns nothing
C1_GetterFailsBeforeBackward ==
  (ret.op = "get_activations_gradient" /\ NoBackwardYet) => ret.status = "raise"

\* C1 (amended): get_activations_gradient() before any backward pass raises
\* nothing and returns the placeholder None
C1_GetterReturnsNoneBeforeBackward ==
  (ret.op = "get_activations_gradient" /\ NoBackwardYet)
     => (ret.status = "ok" /\ ret.value = None /\ gradients = None)

\* C1 witness: the getter has been called on a freshly constructed instance
C1_Witness == ret.op = "get_activations_gradient" /\ tape = <<>> /\ ret.status = "ok"

\* the latest forward pass has not been backpropagated, an earlier one has
StaleForwarded ==
  /\ Phase = "Forwarded"
  /\ \E i \in 1..Len(tape) : tape[i].freed

\* C2 (as stated): after forward, backward, forward, the getter fails and does
\* not return the gradient captured for the first forward pass
C2_ForwardDiscardsGradient ==
  (ret.op = "get_activations_gradient" /\ StaleForwarded) => ret.status = "raise"

\* C2 (amended): forward() leaves the captured gradient alone: when the latest
\* forward pass has not been backpropagated but an earlier one has, the getter
\* returns, without error, the gradient captured for that earlier pass
C2_GetterReturnsEarlierGradient ==
  (ret.op = "get_activations_gradient" /\ StaleForwarded)
     => /\ ret.status = "ok"
        /\ ret.value /= None
        /\ gradSrc /= None
        /\ gradSrc.fwd < Len(tape)
        /\ ret.value = TapGradient(Tensor(tape[gradSrc.fwd].x), gradSrc.col)

\* C2 witness: forward, backward from it, a second forward, then the getter
C2_Witness ==
  /\ ret.op = "get_activations_gradient"
  /\ Len(tape) = 2 /\ tape[1].freed /\ ~tape[2].freed
  /\ gradSrc /= None /\ ret.value /= None

\* C3 (as stated): the heatmap computation invoked in Idle or Forwarded raises
\* and produces no heatmap
C3_HeatmapOnlyWhenBackpropagated ==
  (ret.op = "run_gradcam" /\ ret.phase \in {"Idle", "Forwarded"}) => ret.status = "raise"

\* a class_label that logits[:, class_label] accepts
IndexAccepted(k) == -OutputDim <= k /\ k < OutputDim

\* C3 (amended): run_gradcam runs the backward pass itself.  Invoked in Idle
\* it raises and produces no heatmap; invoked in Forwarded on the logits of
\* that forward pass (accepted class index, num_feature_channels within the
\* channel count) it backpropagates and returns a heatmap, leaving the
\* instance Backpropagated; it never returns a heatmap without a backward pass
\* of its own
C3_RunGradcamBackpropagatesItself ==
  ret.op = "run_gradcam"
     => /\ ret.phase = "Idle" => ret.status = "raise"
        /\ (ret.phase = "Forwarded" /\ ret.h = Own(Len(tape)) /\ IndexAccepted(ret.k)
              /\ ret.nfc <= TapChannels)
             => (ret.status = "ok" /\ ret.bw /\ Phase = "Backpropagated")
        /\ ret.status = "ok" => ret.bw

\* C3 witness: run_gradcam called in Forwarded has returned a heatmap
C3_Witness == ret.op = "run_gradcam" /\ ret.phase = "Forwarded" /\ ret.status = "ok"

---------------------------------------------------------------------------
(* Claims about the heatmap arithmetic (SpecCam)                           *)

\* a rational value in [0, 1] (NaN and Inf are not)
InUnit(v) == v[2] > 0 /\ 0 <= v[1] /\ v[1] <= v[2]

Computed == ret.op = "gradcam_math"

\* the rectified grid is all zero
Degenerate == \A p \in 1..Len(ret.value.raw) : ret.value.raw[p] = <<0, 1>>

\* C4 (as stated): every value of the returned heatmap is in [0, 1], and one
\* of them is exactly 1 unless the rectified grid is all zero
C4_HeatmapInUnitRange ==
  (Computed /\ ret.status = "ok")
     => /\ \A p \in 1..Len(ret.value.values) : InUnit(ret.value.values[p])
        /\ ~Degenerate => \E p \in 1..Len(ret.value.values) : ret.value.values[p] = <<1, 1>>

\* C5 (as stated): when the rectified grid is all zero the division is skipped
\* and the all-zero grid is returned
C5_DegenerateReturnsZeros ==
  (Computed /\ ret.status = "ok" /\ Degenerate)
     => \A p \in 1..Len(ret.value.values) : ret.value.values[p] = <<0, 1>>

\* sum of all entries of channel c of g, over batch, rows and columns
ChannelTotal(g, c) == SumSeq(Concat([n \in 1..Len(g) |-> Concat(g[n][c])]))

\* number of entries of one channel of g, over batch, rows and columns
ChannelCount(g) == Len(g) * Rows(g[1][1]) * Cols(g[1][1])

\* max(0, mean over all channels c of A[c,h,w] * weight[c]) at every pixel,
\* where the first m channels are weighted by weight[c] = mean of G[c,:,:]
\* and the others by 1
WeightedMean(a, g, m) ==
  Concat([n \in 1..Len(a) |-> Concat([i \in 1..Rows(a[n][1]) |->
     [j \in 1..Cols(a[n][1]) |->
        Rat(Max2(SumSeq([c \in 1..Len(a[n]) |->
                    IF c <= m THEN a[n][c][i][j] * ChannelTotal(g, c)
                              ELSE a[n][c][i][j] * ChannelCount(g)]), 0),
            Len(a[n]) * ChannelCount(g))]])])

\* C6 (as stated): the heatmap before normalisation is, at each pixel,
\* max(0, mean over all channels of A[c,h,w] * weight[c])
C6_AllChannelsWeighted ==
  Computed => (ret.status = "ok"
               /\ ret.value.raw = WeightedMean(inp.a, inp.g, Len(inp.a[1])))

\* C6 (amended): that formula holds when num_feature_channels equals the
\* channel count; a smaller num_feature_channels leaves the channels from that
\* index on unweighted in the mean, a larger one raises IndexError
C6_LoopedChannelsWeighted ==
  Computed =>
     IF inp.nfc > Len(inp.a[1])
     THEN ret.status = "raise" /\ ret.value = "IndexError"
     ELSE ret.status = "ok" /\ ret.value.raw = WeightedMean(inp.a, inp.g, inp.nfc)

\* C6 witness: computed with num_feature_channels equal to the channel count,
\* a negative and a positive channel weight, and a positive pixel
C6_Witness ==
  /\ Computed /\ inp.nfc = Len(inp.a[1]) /\ ret.status = "ok"
  /\ \E c \in 1..Len(inp.g[1]) : ChannelTotal(inp.g, c) < 0
  /\ \E c \in 1..Len(inp.g[1]) : ChannelTotal(inp.g, c) > 0
  /\ \E p \in 1..Len(ret.value.raw) : ret.value.raw[p][1] > 0

---------------------------------------------------------------------------
(* The prediction cell: predicted_label = F.softmax(logits, dim=1).argmax(dim=1) *)
(*                                                                         *)
(* Logits are integers counted in quanta; QuantaPerOctave quanta double    *)
(* the exponential.  The exponential is rounded to ExpScale steps per unit, *)
(* as a float result is rounded to its precision; the division by the sum  *)
(* is exact.                                                               *)

QuantaPerOctave == 8

ExpScale == 4

MaxLogit == 3

MaxClasses == 4

RECURSIVE Pow(_, _)
Pow(b, n) == IF n = 0 THEN 1 ELSE b * Pow(b, n - 1)

\* exp(d) for d <= 0, rounded to the nearest multiple of 1/ExpScale:
\* the greatest r with r - 1/2 <= ExpScale * 2^(d / QuantaPerOctave)
ExpRounded(d) ==
  IF -d > 30 THEN 0
  ELSE LET bound == Pow(2 * ExpScale, QuantaPerOctave) \div Pow(2, -d)
       IN CHOOSE r \in 0..ExpScale :
            /\ r = 0 \/ Pow(2 * r - 1, QuantaPerOctave) <= bound
            /\ r = ExpScale \/ Pow(2 * r + 1, QuantaPerOctave) > bound

\* F.softmax(logits, dim=1) on one row: exp(x - max) / sum, as rationals
Softmax(x) ==
  LET e == Eager([i \in 1..Len(x) |-> ExpRounded(x[i] - MaxSeq(x))])
  IN Eager([i \in 1..Len(x) |-> Rat(e[i], SumSeq(e))])

\* variant: a later equal maximum replaces the earlier one
RECURSIVE ArgmaxLast(_)
ArgmaxLast(p) ==
  IF Len(p) = 1 THEN 0
  ELSE LET best == ArgmaxLast(SubSeq(p, 1, Len(p) - 1))
       IN IF RatLeq(p[best + 1], p[Len(p)]) THEN Len(p) - 1 ELSE best

\* tensor.argmax(dim=1) on one row of rationals: the 0-based index of the first
\* maximal value
RECURSIVE Argmax(_)
Argmax(p) ==
  IF Len(p) = 1 THEN 0
  ELSE LET best == Argmax(SubSeq(p, 1, Len(p) - 1))
       IN IF RatLeq(p[Len(p)], p[best + 1]) THEN best ELSE Len(p) - 1

\* the cell's predicted_label for one row of logits
PredictedLabel(x) == Argmax(Softmax(x))

\* the logits [0.1, 0.9, 0.9, 0.05] in quanta of 0.05
ExampleLogits == <<2, 18, 18, 1>>

RECURSIVE SeqsOver(_, _)
SeqsOver(vals, n) ==
  IF n = 0 THEN {<<>>} ELSE {Append(s, v) : s \in SeqsOver(vals, n - 1), v \in vals}

LogitRows ==
  UNION {SeqsOver(0..MaxLogit, n) : n \in 2..MaxClasses} \cup {ExampleLogits}

InitSel ==
  /\ gradients = None
  /\ gradSrc = None
  /\ tape = <<>>
  /\ ret = [op |-> "init", x |-> <<>>, h |-> <<>>, k |-> 0, nfc |-> 0,
            status |-> "ok", value |-> None, phase |-> "Idle", bw |-> FALSE,
            live |-> FALSE]
  /\ inp \in LogitRows

\* predicted_label = F.softmax(logits, dim=1).argmax(dim=1) on inp
Predict ==
  /\ ret.op = "init"
  /\ ret' = Call("predict", NoArgs, Ok(PredictedLabel(inp)), FALSE)
  /\ UNCHANGED <<gradients, gradSrc, tape, inp>>

NextSel == Predict

SpecSel == InitSel /\ [][NextSel]_vars

\* 0-based index of the first maximal logit
StableArgmaxOfLogits(x) ==
  CHOOSE i \in 0..(Len(x) - 1) :
     /\ \A j \in 1..Len(x) : x[j] <= x[i + 1]
     /\ \A j \in 1..i : x[j] < x[i + 1]

\* i (0-based) is the lowest index whose softmax probability is maximal
LowestMaxProbability(x, i) ==
  /\ i \in 0..(Len(x) - 1)
  /\ \A j \in 1..Len(x) : RatLeq(Softmax(x)[j], Softmax(x)[i + 1])
  /\ \A j \in 1..i : Softmax(x)[j] /= Softmax(x)[i + 1]

\* no logit below the maximum has a softmax probability that rounding made
\* equal to the maximum's
MaximumSeparated(x) ==
  \A j \in 1..Len(x) : x[j] < MaxSeq(x) => ExpRounded(x[j] - MaxSeq(x)) < ExpRounded(0)

\* C7 (as stated): the predicted label is the lowest index of the maximum
\* softmax probability, and the same index whether logits or probabilities
\* are compared
C7_SameAsLogitArgmax ==
  ret.op = "predict"
     => (LowestMaxProbability(inp, ret.value) /\ ret.value = StableArgmaxOfLogits(inp))

\* C7 (amended): the predicted label is the lowest index of the maximum
\* softmax probability (1 for the example row); it is the stable argmax of the
\* logits whenever no smaller logit's probability rounds to the maximum's
C7_LowestIndexOfMaxProbability ==
  ret.op = "predict"
     => /\ LowestMaxProbability(inp, ret.value)
        /\ MaximumSeparated(inp) => ret.value = StableArgmaxOfLogits(inp)
        /\ inp = ExampleLogits => ret.value = 1

\* C7 witness: the example row, two classes tied at the maximum, predicted
C7_Witness == ret.op = "predict" /\ inp = ExampleLogits /\ ret.value = 1

---------------------------------------------------------------------------
(* Claims about the class index, the forward pass and get_activations      *)

\* C8 (as stated): a forced class in [0, class_count) is the target whatever
\* the logits; any index outside that range raises before a backward pass
C8_OutOfRangeRejected ==
  ret.op = "run_gradcam"
     => /\ (0 <= ret.k /\ ret.k < OutputDim /\ ret.live)
             => (ret.bw /\ gradSrc = [fwd |-> ret.h[2], col |-> ret.k + 1])
        /\ ~(0 <= ret.k /\ ret.k < OutputDim) => (ret.status = "raise" /\ ~ret.bw)

\* C8 (amended): the class index is not validated but used to index the
\* logits.  An index in [0, class_count) is the target whatever the logits; an
\* index >= class_count or < -class_count raises IndexError before any
\* backward pass; an index in [-class_count, -1] is accepted and selects class
\* index + class_count
C8_IndexingSelectsTheClass ==
  ret.op = "run_gradcam"
     => /\ (0 <= ret.k /\ ret.k < OutputDim /\ ret.live)
             => /\ ret.bw
                /\ gradSrc = [fwd |-> ret.h[2], col |-> ret.k + 1]
                /\ gradients = GradientTable[tape[ret.h[2]].x][ret.k + 1]
        /\ (ret.k >= OutputDim \/ ret.k < -OutputDim)
             => (ret.status = "raise" /\ ret.value = "IndexError" /\ ~ret.bw)
        /\ (-OutputDim <= ret.k /\ ret.k < 0 /\ ret.live)
             => /\ ret.bw
                /\ gradSrc = [fwd |-> ret.h[2], col |-> ret.k + OutputDim + 1]
                /\ gradients = GradientTable[tape[ret.h[2]].x][ret.k + OutputDim + 1]

\* C8 witness: class_label = class_count has been rejected before any backward
\* pass, on logits that were ready for one
C8_Witness ==
  /\ ret.op = "run_gradcam" /\ ret.k = OutputDim /\ ret.live
  /\ ret.status = "raise" /\ ~ret.bw /\ Phase = "Forwarded"

\* C9 (as stated): the tapped classifier's forward(x) returns what the wrapped
\* classifier's forward(x) returns, for every input the latter accepts
C9_TappedForwardEqualsWrapped ==
  (ret.op = "forward" /\ WrappedTable[ret.x].status = "ok")
     => (ret.status = "ok" /\ ret.value = WrappedTable[ret.x].value)

\* C10: get_activations(x) changes neither the captured gradient nor the set
\* of hooked graphs, and a second call with the same x returns the same tensor
C10_GetActivationsIsPure ==
  [][ret'.op = "get_activations"
       => /\ gradients' = gradients
          /\ gradSrc' = gradSrc
          /\ tape' = tape
          /\ ret'.status = "ok"
          /\ (ret.op = "get_activations" /\ ret.x = ret'.x) => ret'.value = ret.value]_vars

\* C10 witness: get_activations has been called while a captured gradient is held
C10_Witness ==
  ret.op = "get_activations" /\ gradients /= None /\ Phase = "Backpropagated"

---------------------------------------------------------------------------
(* Tensor shapes through the small network as the notebook builds it:      *)
(* a shape is <<batch, channels, height, width>>                           *)

MaxSide == 28

\* self.conv of ImageClassifier with the sizes of the source
SmallNet ==
  << [kind |-> "conv", cin |-> 1, cout |-> 6,  k |-> 5],
     [kind |-> "relu", cin |-> 0, cout |-> 0,  k |-> 0],
     [kind |-> "pool", cin |-> 0, cout |-> 0,  k |-> 2],
     [kind |-> "conv", cin |-> 6, cout |-> 16, k |-> 5],
     [kind |-> "relu", cin |-> 0, cout |-> 0,  k |-> 0],
     [kind |-> "pool", cin |-> 0, cout |-> 0,  k |-> 2] >>

\* output shape of one layer (no padding, stride 1 for Conv2d, stride = kernel
\* for MaxPool2d), or the RuntimeError PyTorch raises when the input is too small
LayerShape(l, s) ==
  IF l.kind = "relu" THEN Ok(s)
  ELSE IF s[3] < l.k \/ s[4] < l.k THEN Raise("RuntimeError")
  ELSE IF l.kind = "pool" THEN Ok(<<s[1], s[2], s[3] \div l.k, s[4] \div l.k>>)
  ELSE IF s[2] /= l.cin THEN Raise("RuntimeError")
  ELSE Ok(<<s[1], l.cout, s[3] - l.k + 1, s[4] - l.k + 1>>)

RECURSIVE SequentialShape(_, _)
\* output shape of nn.Sequential(layers) on an input of shape s
SequentialShape(layers, s) ==
  IF layers = <<>> THEN Ok(s)
  ELSE LET r == LayerShape(Head(layers), s)
       IN IF r.status = "ok" THEN SequentialShape(Tail(layers), r.value) ELSE r

\* variant: the tap sits behind the last pooling layer
TapShapeAfterPool(s) == SequentialShape(SmallNet, s)

\* shape of features_conv(x) with features_conv = self.conv[:5]
TapShape(s) == SequentialShape(SubSeq(SmallNet, 1, TapIndex), s)

\* shape of F.max_pool2d(x, kernel_size=2) applied to the tapped tensor
PooledShape(s) == LayerShape([kind |-> "pool", cin |-> 0, cout |-> 0, k |-> TapPoolKernel], s)

\* shape of torch.mean(activations, dim=1).squeeze(): the channel axis is
\* reduced and every axis of length 1 is dropped
HeatmapShape(s) == SelectSeq(<<s[1], s[3], s[4]>>, LAMBDA d : d /= 1)

ShapeInputs == {<<1, 1, h, w>> : h \in 1..MaxSide, w \in 1..MaxSide}

InitShape ==
  /\ gradients = None
  /\ gradSrc = None
  /\ tape = <<>>
  /\ ret = [op |-> "init", x |-> <<>>, h |-> <<>>, k |-> 0, nfc |-> 0,
            status |-> "ok", value |-> None, phase |-> "Idle", bw |-> FALSE,
            live |-> FALSE]
  /\ inp \in ShapeInputs

\* x = features_conv(x) on an input of shape inp
TapStep ==
  /\ ret.op = "init"
  /\ ret' = Call("tap", NoArgs, TapShape(inp), FALSE)
  /\ UNCHANGED <<gradients, gradSrc, tape, inp>>

\* x = F.max_pool2d(x, kernel_size=2) on the tapped tensor
PoolStep ==
  /\ ret.op = "tap" /\ ret.status = "ok"
  /\ ret' = Call("pool", NoArgs, PooledShape(ret.value), FALSE)
  /\ UNCHANGED <<gradients, gradSrc, tape, inp>>

\* the heatmap run_gradcam derives from the tapped tensor
HeatmapStep ==
  /\ ret.op = "tap" /\ ret.status = "ok"
  /\ ret' = Call("heatmap", NoArgs, Ok(HeatmapShape(ret.value)), FALSE)
  /\ UNCHANGED <<gradients, gradSrc, tape, inp>>

NextShape == TapStep \/ PoolStep \/ HeatmapStep

SpecShape == InitShape /\ [][NextShape]_vars

\* the 28x28 single-channel image of the notebook
MnistShape == <<1, 1, 28, 28>>

\* C11 (as stated): for a 28x28 single-channel input the tapped tensor and
\* the heatmap computed from it have spatial resolution 4x4
C11_TapIsFourByFour ==
  (inp = MnistShape /\ ret.op \in {"tap", "heatmap"} /\ ret.status = "ok")
     => IF ret.op = "tap" THEN <<ret.value[3], ret.value[4]>> = <<4, 4>>
        ELSE ret.value = <<4, 4>>

\* C11 (amended): for a 28x28 single-channel input the tapped tensor is
\* 16 channels of 8x8 and the heatmap is 8x8; 4x4 is the resolution after the
\* pooling that follows the tap
C11_TapIsEightByEight ==
  (inp = MnistShape /\ ret.op /= "init")
     => /\ ret.status = "ok"
        /\ ret.op = "tap" => ret.value = <<1, 16, 8, 8>>
        /\ ret.op = "heatmap" => ret.value = <<8, 8>>
        /\ ret.op = "pool" => ret.value = <<1, 16, 4, 4>>

\* C11 witness: the heatmap of a 28x28 input has been derived from the tap
C11_Witness == inp = MnistShape /\ ret.op = "heatmap" /\ ret.value = <<8, 8>>

---------------------------------------------------------------------------
(* Claims about reordering the channel axis                                *)

\* C12 (as stated): reordering the channels of both the activation and the
\* gradient by the same permutation leaves the returned heatmap unchanged
C12_PermutationInvariant ==
  ret.op = "gradcam_math_permuted" => ret.value.after = ret.value.before

\* C12 (amended): the heatmap is unchanged by a common reordering of the
\* channels when num_feature_channels is the channel count, so that the loop
\* weights every channel (a larger value raises IndexError either way)
C12_PermutationInvariantWhenAllWeighted ==
  (ret.op = "gradcam_math_permuted" /\ inp.nfc >= Len(inp.a[1]))
     => /\ ret.value.after = ret.value.before
        /\ ret.value.after.status = "ok" <=> inp.nfc = Len(inp.a[1])

\* C12 witness: two channels with different weights and different activations
\* have been exchanged, every channel was weighted and the heatmap is not flat
C12_Witness ==
  /\ ret.op = "gradcam_math_permuted" /\ inp.nfc = Len(inp.a[1])
  /\ ret.x = <<2, 1>>
  /\ inp.a[1][1] /= inp.a[1][2]
  /\ ChannelTotal(inp.g, 1) /= ChannelTotal(inp.g, 2)
  /\ ret.value.after.status = "ok"
  /\ \E q \in 1..Len(ret.value.after.value.raw) : ret.value.after.value.raw[q][1] > 0

---------------------------------------------------------------------------
(* Two explanation requests, each the notebook's sequence                  *)
(*     logits = model(x); run_gradcam(model, x, logits, k, channels)       *)
(* run step by step so that the steps of the two can interleave.  In this  *)
(* specification the variables hold                                        *)
(*   inp       : the configuration: whether the requests use one instance, *)
(*               whether the callers serialize whole requests, and each    *)
(*               request's image x and class_label k                       *)
(*   gradients : self.gradients of each instance                           *)
(*   gradSrc   : for each instance, the request whose backward pass wrote  *)
(*               self.gradients and the logit column it started from       *)
(*   tape      : for each request, its image, whether the graph of its     *)
(*               logits has been freed, its position pc, and run_gradcam's *)
(*               local gradients (got) with the request that wrote it      *)
(*   ret       : the last step taken                                       *)

Requests == {1, 2}

\* class_label values that logits[:, class_label] accepts
AcceptedLabels == {k \in ClassLabels : ColumnOf(k) /= 0}

ConcConfigs ==
  [shared : BOOLEAN, locked : BOOLEAN,
   x : [Requests -> SingleInputs], k : [Requests -> AcceptedLabels]]

\* variant: the capture slot is one field for all instances
InstanceOfClassLevel(r) == 1

\* the instance request r calls: self.gradients is a field of that instance
InstanceOf(r) == IF inp.shared THEN 1 ELSE r

\* the callers hold a lock from before forward until run_gradcam has returned:
\* request r may step only while no other request is inside its sequence
LockFree(r) ==
  inp.locked => \A q \in Requests \ {r} : tape[q].pc \in {"start", "done"}

\* the gradient the hook receives in request r's own backward pass
OwnGradient(r) == GradientTable[inp.x[r]][ColumnOf(inp.k[r])]

InitConc ==
  /\ inp \in ConcConfigs
  /\ gradients = [i \in Requests |-> None]
  /\ gradSrc = [i \in Requests |-> None]
  /\ tape = [r \in Requests |->
               [x |-> inp.x[r], freed |-> FALSE, pc |-> "start", got |-> None, gotSrc |-> 0]]
  /\ ret = [op |-> "init", r |-> 0, status |-> "ok", value |-> None]

\* logits = model_modified(test_image) in request r
ReqForward(r) ==
  /\ tape[r].pc = "start" /\ LockFree(r)
  /\ tape' = [tape EXCEPT ![r].pc = "forwarded"]
  /\ ret' = [op |-> "forward", r |-> r, status |-> "ok", value |-> LogitsTable[inp.x[r]].value]
  /\ UNCHANGED <<gradients, gradSrc, inp>>

\* logits[:, class_label].backward() in request r: the hook of r's instance
\* stores the gradient
ReqBackward(r) ==
  /\ tape[r].pc = "forwarded" /\ LockFree(r)
  /\ gradients' = [gradients EXCEPT ![InstanceOf(r)] = OwnGradient(r)]
  /\ gradSrc' = [gradSrc EXCEPT ![InstanceOf(r)] = [fwd |-> r, col |-> ColumnOf(inp.k[r])]]
  /\ tape' = [tape EXCEPT ![r].pc = "backpropagated", ![r].freed = TRUE]
  /\ ret' = [op |-> "backward", r |-> r, status |-> "ok", value |-> None]
  /\ UNCHANGED inp

\* gradients = model.get_activations_gradient() in request r
ReqRead(r) ==
  /\ tape[r].pc = "backpropagated" /\ LockFree(r)
  /\ tape' = [tape EXCEPT ![r].pc = "read",
                          ![r].got = gradients[InstanceOf(r)],
                          ![r].gotSrc = gradSrc[InstanceOf(r)].fwd]
  /\ ret' = [op |-> "get_activations_gradient", r |-> r, status |-> "ok",
             value |-> gradients[InstanceOf(r)]]
  /\ UNCHANGED <<gradients, gradSrc, inp>>

\* the rest of run_gradcam in request r, from the gradients it read
ReqHeatmap(r) ==
  /\ tape[r].pc = "read" /\ LockFree(r)
  /\ LET res == HeatmapTable[<<ActivationTable[inp.x[r]], tape[r].got, TapChannels>>]
     IN ret' = [op |-> "run_gradcam", r |-> r, status |-> res.status, value |-> res.value]
  /\ tape' = [tape EXCEPT ![r].pc = "done"]
  /\ UNCHANGED <<gradients, gradSrc, inp>>

NextConc ==
  \E r \in Requests : ReqForward(r) \/ ReqBackward(r) \/ ReqRead(r) \/ ReqHeatmap(r)

SpecConc == InitConc /\ [][NextConc]_vars

\* C13: with an instance per request, or with whole requests serialized, the
\* gradient a request reads from the capture slot is the one its own backward
\* pass captured; on a shared instance without serialization it is the one
\* captured by the latest backward pass on that instance, whichever request
\* ran it
C13_ReadsOwnGradientWhenIsolated ==
  \A r \in Requests :
     tape[r].pc \in {"read", "done"}
        => /\ tape[r].gotSrc \in Requests
           /\ tape[r].got = OwnGradient(tape[r].gotSrc)
           /\ (~inp.shared \/ inp.locked) => tape[r].gotSrc = r

\* C13 witness: on a shared instance without serialization a request has
\* computed its heatmap from the gradient the other request's backward wrote
C13_Witness ==
  /\ inp.shared /\ ~inp.locked
  /\ \E r \in Requests :
        /\ tape[r].pc = "done" /\ ret.op = "run_gradcam" /\ ret.r = r
        /\ tape[r].gotSrc /= r
        /\ tape[r].got /= OwnGradient(r)

\* both isolated arrangements complete both requests
C13_IsolatedWitness ==
  /\ \A r \in Requests : tape[r].pc = "done" /\ tape[r].got /= OwnGradient(3 - r)
  /\ inp.shared /\ inp.locked

---------------------------------------------------------------------------
(* Claims about when the capture slot is filled                            *)

\* C14: the captured gradient is None from construction until a backward pass
\* from logits of this instance has run; forward and get_activations calls
\* leave it as it is, and only such a backward pass (the caller's or
\* run_gradcam's) changes it
C14_AbsentUntilOwnBackward ==
  /\ [](NoBackwardYet => gradients = None)
  /\ [][/\ ret'.op \in {"forward", "get_activations", "get_activations_gradient"}
             => gradients' = gradients
        /\ gradients' /= gradients
             => /\ ret'.op \in {"backward", "run_gradcam"}
                /\ ret'.bw /\ ret'.live
                /\ gradients' /= None]_vars

\* C14 witness: two forward calls and a get_activations call have run, no
\* backward pass, and the slot is still None
C14_Witness ==
  /\ ret.op = "get_activations" /\ Len(tape) = 2 /\ NoBackwardYet /\ gradients = None

---------------------------------------------------------------------------
(* run_gradcam statement by statement over tensor storage.  A tensor       *)
(* variable refers to a storage; an in-place operation writes the storage  *)
(* and every variable referring to it sees the write.  In this             *)
(* specification the variables hold                                        *)
(*   inp       : the call: image x, the image fx whose forward pass gave   *)
(*               the logits, class_label k, num_feature_channels nfc, and  *)
(*               whether an earlier backward pass has filled the slot      *)
(*   tape      : the storages in order of allocation, each with its value  *)
(*               and the number of in-place writes it has received         *)
(*   gradients : the storage self.gradients refers to (0 for None)         *)
(*   gradSrc   : the position in run_gradcam, its local variables, and the *)
(*               storages and the slot as they were when it was called     *)
(*   ret       : what run_gradcam returned or raised                       *)

\* storages the caller holds when it calls run_gradcam
ImageRef == 1
LogitsRef == 2
RetainedRef == 3
EarlierGradientRef == 4

FrameConfigs ==
  [x : SingleInputs, fx : SingleInputs, k : AcceptedLabels, nfc : NfcChoices,
   prior : BOOLEAN]

Storage(v) == [val |-> v, writes |-> 0]

\* the caller's tensors: test_image, logits = model(fx), an activation kept
\* from its own call model.get_activations(test_image), and the gradient an
\* earlier backward pass left in the slot
CallerStorages(c) ==
  LET base == << Storage(TensorTable[c.x]), Storage(LogitsTable[c.fx].value),
                 Storage(ActivationTable[c.x]) >>
  IN IF c.prior THEN Append(base, Storage(GradientTable[<<1>>][1])) ELSE base

InitFrame ==
  /\ inp \in FrameConfigs
  /\ tape = CallerStorages(inp)
  /\ gradients = IF inp.prior THEN EarlierGradientRef ELSE 0
  /\ gradSrc = [pc |-> "called", gradients |-> 0, pooled |-> 0, activations |-> 0,
                heatmap |-> 0, snap |-> CallerStorages(inp),
                slot |-> IF inp.prior THEN EarlierGradientRef ELSE 0]
  /\ ret = [op |-> "init", status |-> "ok", value |-> None]

\* logits[:, class_label].backward(): autograd hands the hook a new tensor and
\* the hook binds self.gradients to it
FrameBackward ==
  /\ gradSrc.pc = "called"
  /\ tape' = Append(tape, Storage(GradientTable[inp.fx][ColumnOf(inp.k)]))
  /\ gradients' = Len(tape) + 1
  /\ gradSrc' = [gradSrc EXCEPT !.pc = "backpropagated"]
  /\ UNCHANGED <<ret, inp>>

\* gradients = model.get_activations_gradient(): the local names the same
\* storage as self.gradients
FrameGetGradient ==
  /\ gradSrc.pc = "backpropagated"
  /\ gradSrc' = [gradSrc EXCEPT !.pc = "got_gradient", !.gradients = gradients]
  /\ UNCHANGED <<tape, gradients, ret, inp>>

\* pooled_gradients = torch.mean(gradients, dim=[0, 2, 3]): a new tensor
FramePool ==
  /\ gradSrc.pc = "got_gradient"
  /\ tape' = Append(tape, Storage(PooledGradients(tape[gradSrc.gradients].val)))
  /\ gradSrc' = [gradSrc EXCEPT !.pc = "pooled", !.pooled = Len(tape) + 1]
  /\ UNCHANGED <<gradients, ret, inp>>

\* variant: get_activations hands out the tensor the caller already holds
FrameGetActivationsRetained ==
  /\ gradSrc.pc = "pooled"
  /\ gradSrc' = [gradSrc EXCEPT !.pc = "got_activations", !.activations = RetainedRef]
  /\ UNCHANGED <<tape, gradients, ret, inp>>

\* activations = model.get_activations(image).detach(): features_conv(x)
\* computes a new tensor and detach() shares its storage
FrameGetActivations ==
  /\ gradSrc.pc = "pooled"
  /\ tape' = Append(tape, Storage(ActivationTable[inp.x]))
  /\ gradSrc' = [gradSrc EXCEPT !.pc = "got_activations", !.activations = Len(tape) + 1]
  /\ UNCHANGED <<gradients, ret, inp>>

\* the weighting loop, in place on the storage of activations; with
\* num_feature_channels above the channel count it raises IndexError after
\* it has scaled every channel
FrameWeight ==
  /\ gradSrc.pc = "got_activations"
  /\ LET id == gradSrc.activations
         a  == tape[id].val
         n  == IF inp.nfc > Len(a[1]) THEN Len(a[1]) ELSE inp.nfc
     IN /\ tape' = [tape EXCEPT ![id] =
                      [val |-> WeightChannels(a, tape[gradSrc.pooled].val, n),
                       writes |-> tape[id].writes + n]]
        /\ IF inp.nfc > Len(a[1])
           THEN /\ gradSrc' = [gradSrc EXCEPT !.pc = "raised"]
                /\ ret' = [op |-> "run_gradcam", status |-> "raise", value |-> "IndexError"]
           ELSE /\ gradSrc' = [gradSrc EXCEPT !.pc = "weighted"]
                /\ UNCHANGED ret
  /\ UNCHANGED <<gradients, inp>>

\* heatmap = torch.mean(activations, dim=1).squeeze(); heatmap =
\* np.maximum(heatmap, 0): each a new tensor, the local is bound to the last
FrameMean ==
  /\ gradSrc.pc = "weighted"
  /\ LET m == ChannelMean(tape[gradSrc.activations].val)
     IN tape' = tape \o << Storage(m), Storage(Rectify(m)) >>
  /\ gradSrc' = [gradSrc EXCEPT !.pc = "rectified", !.heatmap = Len(tape) + 2]
  /\ UNCHANGED <<gradients, ret, inp>>

\* heatmap /= torch.max(heatmap), in place on the storage of heatmap;
\* return heatmap
FrameNormalize ==
  /\ gradSrc.pc = "rectified"
  /\ LET id == gradSrc.heatmap
         h  == Normalize(tape[id].val)
     IN /\ tape' = [tape EXCEPT ![id] = [val |-> h, writes |-> tape[id].writes + 1]]
        /\ ret' = [op |-> "run_gradcam", status |-> "ok", value |-> Squeeze(h, 3)]
  /\ gradSrc' = [gradSrc EXCEPT !.pc = "returned"]
  /\ UNCHANGED <<gradients, inp>>

NextFrame ==
  \/ FrameBackward
  \/ FrameGetGradient
  \/ FramePool
  \/ FrameGetActivations
  \/ FrameWeight
  \/ FrameMean
  \/ FrameNormalize

SpecFrame == InitFrame /\ [][NextFrame]_vars

\* run_gradcam has returned or raised
FrameLeft == gradSrc.pc \in {"returned", "raised"}

\* storage id holds what it held when run_gradcam was called
Untouched(id) ==
  /\ tape[id].writes = gradSrc.snap[id].writes
  /\ tape[id].val = gradSrc.snap[id].val

\* C15 (as stated): after run_gradcam the captured gradient held by the
\* classifier, the caller's image and logits and the activation the caller
\* retains are what they were before the call
C15_NothingOfTheCallerChanges ==
  FrameLeft
     => /\ gradients = gradSrc.slot
        /\ \A id \in 1..Len(gradSrc.snap) : Untouched(id)

\* C15 (amended): the weighting and the normalisation write only tensors
\* run_gradcam created: every tensor that existed before the call is
\* untouched, and the slot holds, unwritten, the gradient that run_gradcam's
\* own backward pass stored in it in place of what was captured before
C15_WritesOnlyItsOwnTensors ==
  FrameLeft
     => /\ \A id \in 1..Len(gradSrc.snap) : Untouched(id)
        /\ gradients > Len(gradSrc.snap)
        /\ tape[gradients].writes = 0
        /\ tape[gradients].val = GradientTable[inp.fx][ColumnOf(inp.k)]
        /\ \A id \in 1..Len(tape) :
              tape[id].writes > 0 => id \in {gradSrc.activations, gradSrc.heatmap}

\* C15 witness: run_gradcam has returned a heatmap after weighting channels
\* with a weight other than 1 and normalising, with an earlier gradient and a
\* retained activation in the caller's hands
C15_Witness ==
  /\ gradSrc.pc = "returned" /\ inp.prior /\ ret.status = "ok"
  /\ tape[gradSrc.activations].writes > 0
  /\ tape[gradSrc.heatmap].writes > 0
  /\ tape[gradSrc.activations].val /= WeightChannels(tape[RetainedRef].val,
                                         [c \in 1..TapChannels |-> <<1, 1>>], TapChannels)

---------------------------------------------------------------------------
(* Claims about which forward pass a captured gradient belongs to          *)

\* the input of the forward call that returned logits h of this instance
InputOf(h) == tape[h[2]].x

\* C16: a backward pass from the logits of one forward call stores the
\* gradient of that call's computation, whichever forward call came last, and
\* run_gradcam combines it with the activation of its own image argument, so
\* the heatmap pairs activation and gradient of one input when, and only
\* when, that image is the input that produced the logits
C16_GradientOfTheLogitsForward ==
  (ret.op \in {"backward", "run_gradcam"} /\ ret.bw /\ ret.live)
     => LET g == GradientTable[InputOf(ret.h)][ColumnOf(ret.k)]
        IN /\ gradients = g
           /\ (ret.op = "run_gradcam" /\ ret.status = "ok")
                 => ret.value = HeatmapTable[<<ActivationTable[ret.x], g, ret.nfc>>].value

\* C16 witness: after forward(a) then forward(b), run_gradcam on the logits of
\* forward(a) with image b has stored the gradient of forward(a), not that of
\* forward(b), and returned a heatmap other than that of a alone
C16_Witness ==
  /\ ret.op = "run_gradcam" /\ ret.status = "ok" /\ ret.h = Own(1) /\ Len(tape) = 2
  /\ tape[1].x /= tape[2].x /\ ret.x = tape[2].x
  /\ gradients = GradientTable[tape[1].x][ColumnOf(ret.k)]
  /\ gradients /= GradientTable[tape[2].x][ColumnOf(ret.k)]
  /\ ret.value /= HeatmapTable[<<ActivationTable[tape[1].x], gradients, ret.nfc>>].value

====
